---- MODULE Spec2Model ----
(***************************************************************************)
(* Model of fake_chatgpt_api.py: the FakeChatGPTAPI browser-session        *)
(* controller (constructor, send_request, check_conditions, click_regen,   *)
(* delete_context, __del__) and the batch driver under __main__ with its   *)
(* signal handlers.  The page is the environment: every wait and every     *)
(* click is a nondeterministic outcome (found / not found within timeout,  *)
(* click succeeds / click raises).                                         *)
(***************************************************************************)
EXTENDS Integers, Sequences, FiniteSets, TLC

\* ------------------------------------------------------------------ bounds
MaxCookies == 2      \* longest cookie list held by the cookie file
MaxMsgs == 2         \* most assistant messages the page shows on one read
ExtraItems == 1      \* work items of the batch beyond the one at OnlyIndex

\* ------------------------------------------------------- program constants
MaxTry == 3          \* send_request: max_try = 3
Retries == 4         \* check_conditions: retries=4
OnlyIndex == 15      \* __main__: if i != 15: continue
SaveEvery == 10      \* __main__: if i % 10 == 0

\* --------------------------------------------------------------- constants
None == "None"
Unbound == "<unbound>"      \* a local name that was never assigned
NoFile == <<"<no file>">>   \* content of a path at which no file exists

Signals == {"SIGABRT", "SIGILL", "SIGINT", "SIGSEGV", "SIGTERM"}
Paths == {"", "cookies.json", "cookies.pkl"}
Answers == {"a1", "a2"}

\* ------------------------------------------------------------------- text
\* Strings are sequences of one-character strings.
NL == "\n"

RECURSIVE Split(_, _)
\* str.split(sep): the pieces between separators, always at least one piece
Split(s, sep) ==
    IF \A k \in 1..Len(s) : s[k] # sep
    THEN <<s>>
    ELSE LET k == CHOOSE j \in 1..Len(s) :
                      s[j] = sep /\ \A m \in 1..(j - 1) : s[m] # sep
         IN  <<SubSeq(s, 1, k - 1)>> \o Split(SubSeq(s, k + 1, Len(s)), sep)

RECURSIVE Join(_, _)
\* sep.join(pieces)
Join(pieces, sep) ==
    IF Len(pieces) = 0 THEN <<>>
    ELSE IF Len(pieces) = 1 THEN pieces[1]
    ELSE pieces[1] \o <<sep>> \o Join(Tail(pieces), sep)

\* ------------------------------------------------------------------- JSON
\* A cookie object is a function from key strings to value strings; a JSON
\* text is its sequence of tokens.
KeyOrder == <<"domain", "name", "value">>

RECURSIVE DumpPairs(_, _)
DumpPairs(obj, k) ==
    IF k > Len(KeyOrder) THEN <<>>
    ELSE (IF KeyOrder[k] \in DOMAIN obj
          THEN <<KeyOrder[k], obj[KeyOrder[k]]>> ELSE <<>>)
         \o DumpPairs(obj, k + 1)

RECURSIVE DumpObjs(_)
DumpObjs(list) ==
    IF Len(list) = 0 THEN <<>>
    ELSE <<"{">> \o DumpPairs(Head(list), 1) \o <<"}">> \o DumpObjs(Tail(list))

\* json.dumps / json.dump of a list of objects
JsonDumps(list) == <<"[">> \o DumpObjs(list) \o <<"]">>

RECURSIVE ParsePairs(_, _)
ParsePairs(t, acc) ==
    IF Head(t) = "}" THEN [obj |-> acc, rest |-> Tail(t)]
    ELSE ParsePairs(Tail(Tail(t)), (t[1] :> t[2]) @@ acc)

RECURSIVE ParseObjs(_)
ParseObjs(t) ==
    IF Head(t) = "]" THEN <<>>
    ELSE LET first == ParsePairs(Tail(Tail(Tail(t))), (t[2] :> t[3]))
         IN  <<first.obj>> \o ParseObjs(first.rest)

\* json.loads of the text of a JSON array of objects
JsonLoads(t) == ParseObjs(Tail(t))

\* cookie.pop('domain', None)
PopDomain(cookie) == [k \in DOMAIN cookie \ {"domain"} |-> cookie[k]]

\* the cookie objects a stored cookie file may hold: every other one carries
\* a domain key
StoredCookie(k) ==
    IF k % 2 = 1
    THEN ("name" :> "tok") @@ ("value" :> ToString(k)) @@ ("domain" :> ".chatgpt.com")
    ELSE ("name" :> "sid") @@ ("value" :> ToString(k))

\* the cookie lists a stored cookie file may hold
CookieLists == {[k \in 1..n |-> StoredCookie(k)] : n \in 0..MaxCookies}

RECURSIVE SeqsUpTo(_, _)
SeqsUpTo(S, n) ==
    IF n = 0 THEN {<<>>}
    ELSE LET shorter == SeqsUpTo(S, n - 1)
         IN  shorter \cup {Append(s, x) : s \in shorter, x \in S}

\* the jars driver.get_cookies() may return once the operator has logged in
LoginJars ==
    { << ("name" :> "sid") @@ ("value" :> "v8") @@ ("domain" :> "chatgpt.com"),
         ("name" :> "tok") @@ ("value" :> "v9") @@ ("domain" :> ".chatgpt.com") >> }

\* the values config.get('context', 'context_content') may have
ContextContents == {<<>>, <<"H", "@", "W">>}

\* batch_pairs.pkl: an ordered list of opaque text items
BatchOfLen(n) == [k \in 1..n |-> <<ToString(k - 1)>>]
Batches == {BatchOfLen(n) : n \in {0} \cup (OnlyIndex + 1)..(OnlyIndex + ExtraItems)}

\* ------------------------------------------------------------------ state
VARIABLES
    config,              \* the options read from the .ini file (lines 84-94)
    batch_pairs,         \* the work batch loaded at line 559
    store0,              \* the cookie file as it was when the process started
    files,               \* the file system: path -> JSON text, or NoFile
    pc,                  \* the position of the (single) thread
    is_context_created,  \* self.is_context_created
    use_4o,              \* self.use_4o
    prompt_text_area,    \* self.prompt_text_area
    send_button,         \* self.send_button
    cookies_list,        \* __init__: cookies_list
    ck,                  \* __init__: position of the for loop of line 144
    injected,            \* the arguments of driver.add_cookie, in call order
    r4o,                 \* what check_chatgpt4o did
    caller,              \* who called send_request: "init" or "main"
    request,             \* send_request: request
    ln,                  \* send_request: position of the for loop of line 403
    typed,               \* the keys sent to the prompt input by this call
    max_try,             \* send_request: max_try
    last_answer,         \* send_request: last_answer (its text), or Unbound
    sr,                  \* counters of the running send_request call
    cc,                  \* the running check_conditions call
    result,              \* how the last send_request call ended
    requests,            \* the send_request calls made so far: caller and text
    it,                  \* __main__: position of the for loop of line 598
    i,                   \* __main__: i (-1 while the name is unbound)
    response_data,       \* __main__: response_data
    checkpoints,         \* the checkpoint files written, in order
    handlers,            \* the signal handlers of line 565 are installed
    api,                 \* the last call of upload_file or is_login, until it
                         \* has returned to its caller
    exc,                 \* the exception that left the program unhandled
    teardown,            \* what ended the program
    ctx_at_teardown,     \* is_context_created when the program ended
    exit_status,         \* the exit status of the process
    del_calls,           \* number of delete_context calls
    del_log              \* the steps delete_context attempted, in order

envVars == <<config, batch_pairs, store0>>
objVars == <<is_context_created, use_4o, prompt_text_area, send_button>>
initVars == <<cookies_list, ck, injected, r4o>>
srVars == <<caller, request, ln, typed, max_try, last_answer, sr, cc, result,
           requests>>
mainVars == <<it, i, response_data, checkpoints, handlers, api>>
endVars == <<exc, teardown, ctx_at_teardown, exit_status>>
delVars == <<del_calls, del_log>>

vars == <<envVars, files, pc, objVars, initVars, srVars, mainVars, endVars, delVars>>

NoException == [type |-> "none", line |-> 0]
NoResult == [kind |-> "none", val |-> None]
NewCall == [n_exc |-> 0, n_regen |-> 0, regen_failed |-> FALSE, submits |-> 0,
            cc_calls |-> 0, clickable |-> FALSE]
NewCheck == [attempt |-> 0, polls |-> 0, clicks |-> 0, result |-> "none"]
NoCall == [op |-> "none", kind |-> "none", val |-> FALSE, touched |-> <<>>,
           found |-> {}, keys |-> <<>>, before |-> <<>>]

Configs ==
    [cookies_path : Paths, manual_login : BOOLEAN, use_chatgpt4o : BOOLEAN,
     context_content : ContextContents]

InitialFlagSet == TRUE

\* line 81: self.is_context_created = False
InitialFlag == FALSE

\* The state at line 126: configuration read, browser launched, page loaded.
Init ==
    /\ config \in Configs
    /\ batch_pairs \in Batches
    /\ store0 \in [exists : {FALSE}, cookies : {<<>>}]
                  \cup (IF config.cookies_path = "" THEN {}
                        ELSE [exists : {TRUE}, cookies : CookieLists])
    /\ files = [p \in Paths |->
                  IF p = config.cookies_path /\ store0.exists
                  THEN JsonDumps(store0.cookies) ELSE NoFile]
    /\ pc = "init_cookies"
    /\ is_context_created = InitialFlag
    /\ use_4o = FALSE
    /\ prompt_text_area = None
    /\ send_button = None
    /\ cookies_list = <<>>
    /\ ck = 1
    /\ injected = <<>>
    /\ r4o = [kind |-> "none", val |-> FALSE, clicks |-> <<>>]
    /\ caller = "init"
    /\ request = <<>>
    /\ ln = 1
    /\ typed = <<>>
    /\ max_try = 0
    /\ last_answer = Unbound
    /\ sr = NewCall
    /\ cc = NewCheck
    /\ result = NoResult
    /\ requests = <<>>
    /\ it = 0
    /\ i = -1
    /\ response_data = <<>>
    /\ checkpoints = <<>>
    /\ handlers = FALSE
    /\ api = NoCall
    /\ exc = NoException
    /\ teardown = "none"
    /\ ctx_at_teardown = FALSE
    /\ exit_status = -1
    /\ del_calls = 0
    /\ del_log = <<>>

\* The interpreter starts to shut down.
Shutdown(why) ==
    /\ teardown' = why
    /\ ctx_at_teardown' = is_context_created
    /\ pc' = "finalize"
    /\ UNCHANGED exit_status

\* An exception nobody catches: the traceback is printed and the interpreter
\* shuts down.
Unhandled(type, line) ==
    /\ exc' = [type |-> type, line |-> line]
    /\ Shutdown("exception")

\* ---------------------------------------------------- __init__, lines 126-165
\* line 131: default_cookies = []
default_cookies == <<>>

CreateCookieFileElsewhere(path) ==
    files' = [files EXCEPT !["cookies.pkl"] = JsonDumps(default_cookies)]

\* lines 134-135: write json.dumps(default_cookies) to the file at cookies_path
CreateCookieFile(path) ==
    files' = [files EXCEPT ![path] = JsonDumps(default_cookies)]

\* lines 127-137: create the cookie file when os.path.exists says it is absent
init_cookies_file ==
    /\ pc = "init_cookies"
    /\ IF files[config.cookies_path] # NoFile
       THEN /\ pc' = "init_load"
            /\ UNCHANGED <<files, endVars>>
       ELSE IF config.cookies_path = ""
       THEN \* open("", 'w') raises FileNotFoundError
            /\ Unhandled("FileNotFoundError", 134)
            /\ UNCHANGED files
       ELSE /\ CreateCookieFile(config.cookies_path)
            /\ pc' = "init_load"
            /\ UNCHANGED endVars
    /\ UNCHANGED <<envVars, objVars, initVars, srVars, mainVars, delVars>>

\* lines 140-141: cookies_list = json.loads(file.read())
init_load_cookies ==
    /\ pc = "init_load"
    /\ cookies_list' = JsonLoads(files[config.cookies_path])
    /\ ck' = 1
    /\ pc' = "init_inject"
    /\ UNCHANGED <<envVars, files, objVars, injected, r4o, srVars, mainVars,
                   endVars, delVars>>

InjectNoPop ==
    /\ cookies_list' = cookies_list
    /\ injected' = Append(injected, cookies_list[ck])

\* lines 146-147: cookie.pop('domain', None); self.driver.add_cookie(cookie)
InjectCookie ==
    /\ cookies_list' = [cookies_list EXCEPT ![ck] = PopDomain(@)]
    /\ injected' = Append(injected, cookies_list'[ck])

\* lines 144-147, one iteration of the for loop
init_inject_cookie ==
    /\ pc = "init_inject"
    /\ ck <= Len(cookies_list)
    /\ InjectCookie
    /\ ck' = ck + 1
    /\ UNCHANGED <<envVars, files, pc, objVars, r4o, srVars, mainVars, endVars,
                   delVars>>

\* line 144: the for loop is exhausted
init_inject_done ==
    /\ pc = "init_inject"
    /\ ck > Len(cookies_list)
    /\ pc' = "init_manual"
    /\ UNCHANGED <<envVars, files, objVars, initVars, srVars, mainVars, endVars,
                   delVars>>

\* lines 200-216: manual_login writes driver.get_cookies() to "cookies.pkl"
manual_login(jar) ==
    files' = [files EXCEPT !["cookies.pkl"] = JsonDumps(jar)]

\* lines 149-151
init_manual_login ==
    /\ pc = "init_manual"
    /\ IF config.manual_login
       THEN \E jar \in LoginJars : manual_login(jar)
       ELSE UNCHANGED files
    /\ pc' = "init_4o"
    /\ UNCHANGED <<envVars, objVars, initVars, srVars, mainVars, endVars, delVars>>

\* lines 254-300.  ind: the 4o indicator is found; sw: the 3.5 switcher is
\* found; swc: its click succeeds; opt: the GPT-4o option is found; optc: its
\* click succeeds.
check_chatgpt4o(ind, sw, swc, opt, optc) ==
    IF ind THEN [kind |-> "return", val |-> TRUE, clicks |-> <<>>]
    ELSE IF ~sw THEN [kind |-> "return", val |-> FALSE, clicks |-> <<>>]
    ELSE IF ~swc THEN [kind |-> "raise", val |-> FALSE, clicks |-> <<"switcher">>]
    ELSE IF ~opt THEN [kind |-> "return", val |-> FALSE, clicks |-> <<"switcher">>]
    ELSE IF ~optc THEN [kind |-> "raise", val |-> FALSE,
                        clicks |-> <<"switcher", "GPT-4o">>]
    ELSE [kind |-> "return", val |-> TRUE, clicks |-> <<"switcher", "GPT-4o">>]

ModelFlagAlways(found) == TRUE

\* lines 153-156: use_4o is False unless check_chatgpt4o returned True
ModelFlag(found) == found

\* lines 153-156
init_select_model ==
    /\ pc = "init_4o"
    /\ IF config.use_chatgpt4o
       THEN \E ind, sw, swc, opt, optc \in BOOLEAN :
              /\ r4o' = check_chatgpt4o(ind, sw, swc, opt, optc)
              /\ IF r4o'.kind = "raise"
                 THEN /\ Unhandled("WebDriverException",
                                   IF Len(r4o'.clicks) = 1 THEN 286 ELSE 296)
                      /\ UNCHANGED use_4o
                 ELSE /\ use_4o' = ModelFlag(r4o'.val)
                      /\ pc' = "init_controls"
                      /\ UNCHANGED endVars
       ELSE /\ use_4o' = FALSE
            /\ pc' = "init_controls"
            /\ UNCHANGED <<r4o, endVars>>
    /\ UNCHANGED <<envVars, files, is_context_created, prompt_text_area,
                   send_button, cookies_list, ck, injected, srVars, mainVars,
                   delVars>>

\* lines 158-161: locate the prompt input (a wait) and the send button
\* (find_element, no wait)
init_controls ==
    /\ pc = "init_controls"
    /\ \E prompt_found, button_found \in BOOLEAN :
         IF ~prompt_found
         THEN /\ Unhandled("TimeoutException", 158)
              /\ UNCHANGED <<prompt_text_area, send_button>>
         ELSE IF ~button_found
         THEN /\ prompt_text_area' = "prompt-textarea"
              /\ Unhandled("NoSuchElementException", 161)
              /\ UNCHANGED send_button
         ELSE /\ prompt_text_area' = "prompt-textarea"
              /\ send_button' = "send-button"
              /\ pc' = "init_context"
              /\ UNCHANGED endVars
    /\ UNCHANGED <<envVars, files, is_context_created, use_4o, initVars, srVars,
                   mainVars, delVars>>

\* send_request is entered: its locals are fresh
Call(req, who) ==
    /\ request' = req
    /\ caller' = who
    /\ ln' = 1
    /\ typed' = <<>>
    /\ max_try' = 0
    /\ last_answer' = Unbound
    /\ sr' = NewCall
    /\ cc' = NewCheck
    /\ result' = NoResult
    /\ requests' = Append(requests, [by |-> who, text |-> req])
    /\ pc' = "sr_focus"

ContextRequestRaw(content) == content

\* line 163: '\n'.join(context_content.split("@"))
ContextRequest(content) == Join(Split(content, "@"), NL)

\* lines 162-163: if context_content: self.send_request(...)
init_context ==
    /\ pc = "init_context"
    /\ IF config.context_content # <<>>
       THEN Call(ContextRequest(config.context_content), "init")
       ELSE /\ pc' = "init_flag"
            /\ UNCHANGED srVars
    /\ UNCHANGED <<envVars, files, objVars, initVars, mainVars, endVars, delVars>>

\* line 165: self.is_context_created = True; the constructor returns to line 562
init_flag ==
    /\ pc = "init_flag"
    /\ is_context_created' = TRUE
    /\ pc' = "main_install"
    /\ UNCHANGED <<envVars, files, use_4o, prompt_text_area, send_button, initVars,
                   srVars, mainVars, endVars, delVars>>

\* ------------------------------------------------ send_request, lines 394-454
KeepLooping(text) ==
    /\ result' = result
    /\ pc' = "sr_except"
    /\ UNCHANGED endVars

\* send_request executes a return statement
Return(text) ==
    /\ result' = [kind |-> "return", val |-> text]
    /\ pc' = "sr_done"
    /\ UNCHANGED endVars

\* the frame of send_request is gone: its locals and counters are fresh
DropFrame ==
    /\ request' = <<>>
    /\ ln' = 1
    /\ typed' = <<>>
    /\ max_try' = 0
    /\ last_answer' = Unbound
    /\ sr' = NewCall
    /\ cc' = NewCheck

\* the call returns: __init__ discards the value (line 163), the driver
\* binds it to answer (line 626)
send_request_done ==
    /\ pc = "sr_done"
    /\ DropFrame
    /\ IF caller = "init"
       THEN /\ result' = NoResult
            /\ pc' = "init_flag"
       ELSE /\ pc' = "main_append"
            /\ UNCHANGED result
    /\ UNCHANGED <<envVars, files, objVars, initVars, caller, requests, mainVars, endVars,
                   delVars>>

\* send_request raises: neither __init__ (line 163) nor the driver's
\* try/except KeyboardInterrupt (lines 568-644) catches it
Raise(type, line) ==
    /\ result' = [kind |-> "raise", val |-> type]
    /\ Unhandled(type, line)

\* lines 394-399: focus the prompt input by script, then click it
send_request_focus ==
    /\ pc = "sr_focus"
    /\ prompt_text_area # None
    /\ \E click_ok \in BOOLEAN :
         IF click_ok
         THEN /\ pc' = "sr_type"
              /\ UNCHANGED <<result, endVars>>
         ELSE Raise("WebDriverException", 399)
    /\ UNCHANGED <<envVars, files, objVars, initVars, caller, requests, request, ln, typed,
                   max_try, last_answer, sr, cc, mainVars, delVars>>

\* line 404: send_keys(line)
TextKeys(line) == [keys |-> "text", text |-> line]

PlainReturn == [keys |-> "RETURN", text |-> <<>>]

\* line 405: send_keys(Keys.SHIFT, Keys.RETURN)
ShiftReturn == [keys |-> "SHIFT+RETURN", text |-> <<>>]

\* lines 402-405, one iteration: send_keys(line); send_keys(Keys.SHIFT, Keys.RETURN)
send_request_type_line ==
    /\ pc = "sr_type"
    /\ ln <= Len(Split(request, NL))
    /\ LET line == Split(request, NL)[ln]
       IN  \E outcome \in {"typed", "text fails", "newline fails"} :
             CASE outcome = "typed" ->
                    /\ typed' = typed \o <<TextKeys(line), ShiftReturn>>
                    /\ ln' = ln + 1
                    /\ UNCHANGED <<pc, result, endVars>>
               [] outcome = "text fails" ->
                    /\ Raise("WebDriverException", 404)
                    /\ UNCHANGED <<typed, ln>>
               [] outcome = "newline fails" ->
                    /\ typed' = Append(typed, TextKeys(line))
                    /\ Raise("WebDriverException", 405)
                    /\ UNCHANGED ln
    /\ UNCHANGED <<envVars, files, objVars, initVars, caller, requests, request, max_try,
                   last_answer, sr, cc, mainVars, delVars>>

\* line 403: the for loop is exhausted
send_request_typed ==
    /\ pc = "sr_type"
    /\ ln > Len(Split(request, NL))
    /\ pc' = "sr_wait"
    /\ UNCHANGED <<envVars, files, objVars, initVars, srVars, mainVars, endVars,
                   delVars>>

\* lines 408-410: wait until the send button is clickable
send_request_wait_clickable ==
    /\ pc = "sr_wait"
    /\ \E clickable \in BOOLEAN :
         IF clickable
         THEN /\ send_button' = "send-button"
              /\ sr' = [sr EXCEPT !.clickable = TRUE]
              /\ pc' = "sr_click"
              /\ UNCHANGED <<result, endVars>>
         ELSE /\ Raise("TimeoutException", 408)
              /\ UNCHANGED <<send_button, sr>>
    /\ UNCHANGED <<envVars, files, is_context_created, use_4o, prompt_text_area,
                   initVars, caller, requests, request, ln, typed, max_try, last_answer,
                   cc, mainVars, delVars>>

\* lines 412-417: click the send button when it is enabled; max_try = 3
send_request_submit ==
    /\ pc = "sr_click"
    /\ \E enabled, click_ok \in BOOLEAN :
         IF enabled /\ ~click_ok
         THEN /\ Raise("WebDriverException", 413)
              /\ UNCHANGED <<sr, max_try>>
         ELSE /\ sr' = [sr EXCEPT !.submits = IF enabled THEN @ + 1 ELSE @]
              /\ max_try' = MaxTry
              /\ pc' = "sr_loop"
              /\ UNCHANGED <<result, endVars>>
    /\ UNCHANGED <<envVars, files, objVars, initVars, caller, requests, request, ln, typed,
                   last_answer, cc, mainVars, delVars>>

\* line 418 with max_try > 0: an attempt begins at the wait of lines 421-426
send_request_attempt ==
    /\ pc = "sr_loop"
    /\ max_try > 0
    /\ pc' = "sr_stop"
    /\ UNCHANGED <<envVars, files, objVars, initVars, srVars, mainVars, endVars,
                   delVars>>

\* lines 421-426: wait for the stop button, whatever happens (bare except);
\* line 440: call check_conditions
send_request_stop_button ==
    /\ pc = "sr_stop"
    /\ \E stop_found \in BOOLEAN :
         /\ cc' = NewCheck
         /\ sr' = [sr EXCEPT !.cc_calls = @ + 1]
         /\ pc' = "cc_poll"
    /\ UNCHANGED <<envVars, files, objVars, initVars, caller, requests, request, ln, typed,
                   max_try, last_answer, result, mainVars, endVars, delVars>>

InRangeInclusive(attempt) == attempt <= Retries

\* line 344: for attempt in range(retries)
InRange(attempt) == attempt < Retries

\* lines 344-370, one iteration of the for loop of check_conditions
check_conditions_poll ==
    /\ pc = "cc_poll"
    /\ InRange(cc.attempt)
    /\ \E button_found, cont_found, click_ok \in BOOLEAN :
         IF ~button_found
         THEN \* line 368: TimeoutException, continue
              /\ cc' = [cc EXCEPT !.attempt = @ + 1, !.polls = @ + 1]
              /\ UNCHANGED <<pc, sr>>
         ELSE IF ~cont_found
         THEN \* line 367: return send_button
              /\ cc' = [cc EXCEPT !.polls = @ + 1, !.result = "element"]
              /\ pc' = "sr_answer"
              /\ UNCHANGED sr
         ELSE IF click_ok
         THEN \* lines 359-363: click, sleep, continue
              /\ cc' = [cc EXCEPT !.attempt = @ + 1, !.polls = @ + 1,
                                  !.clicks = @ + 1]
              /\ UNCHANGED <<pc, sr>>
         ELSE \* line 359 raises; neither except TimeoutException catches it
              /\ cc' = [cc EXCEPT !.polls = @ + 1, !.clicks = @ + 1,
                                  !.result = "raise"]
              /\ sr' = [sr EXCEPT !.n_exc = @ + 1]
              /\ pc' = "sr_except"
    /\ UNCHANGED <<envVars, files, objVars, initVars, caller, requests, request, ln, typed,
                   max_try, last_answer, result, mainVars, endVars, delVars>>

\* line 374: the for loop is exhausted, return None
check_conditions_exhausted ==
    /\ pc = "cc_poll"
    /\ ~InRange(cc.attempt)
    /\ cc' = [cc EXCEPT !.result = "None"]
    /\ pc' = "sr_answer"
    /\ UNCHANGED <<envVars, files, objVars, initVars, caller, requests, request, ln, typed,
                   max_try, last_answer, sr, result, mainVars, endVars, delVars>>

\* the non-empty lists of assistant messages the page may show
MessageLists == SeqsUpTo(Answers, MaxMsgs) \ {<<>>}

\* lines 442-453: read the assistant messages; on success keep the handle of
\* check_conditions and return the text of the last message
send_request_read_answer ==
    /\ pc = "sr_answer"
    /\ \/ \E msgs \in MessageLists :
            /\ last_answer' = msgs[Len(msgs)]
            /\ send_button' = IF cc.result = "element" THEN "send-button" ELSE None
            /\ Return(last_answer')
            /\ UNCHANGED sr
       \/ \* line 442: TimeoutException
          /\ sr' = [sr EXCEPT !.n_exc = @ + 1]
          /\ pc' = "sr_except"
          /\ UNCHANGED <<last_answer, send_button, result, endVars>>
    /\ UNCHANGED <<envVars, files, is_context_created, use_4o, prompt_text_area,
                   initVars, caller, requests, request, ln, typed, max_try, cc, mainVars,
                   delVars>>

click_regen_not_called(found, click_ok) ==
    sr' = [sr EXCEPT !.regen_failed = @ \/ ~(found /\ click_ok)]

\* lines 456-475: click_regen, a wait and a click inside try / bare except:
\* it returns normally whether or not the button was found and clicked
click_regen(found, click_ok) ==
    sr' = [sr EXCEPT !.n_regen = @ + 1,
                     !.regen_failed = @ \/ ~(found /\ click_ok)]

NoDecrement(budget) == budget

\* line 451: max_try -= 1
Decrement(budget) == budget - 1

\* lines 448-451: print(ex); self.click_regen(); max_try -= 1 (the frame
\* of the check_conditions call of this attempt is gone)
send_request_except ==
    /\ pc = "sr_except"
    /\ \E found, click_ok \in BOOLEAN : click_regen(found, click_ok)
    /\ max_try' = Decrement(max_try)
    /\ cc' = NewCheck
    /\ pc' = "sr_loop"
    /\ UNCHANGED <<envVars, files, objVars, initVars, caller, requests, request, ln, typed,
                   last_answer, result, mainVars, endVars, delVars>>

\* line 454, reached when max_try = 0: return last_answer.text
send_request_exhausted ==
    /\ pc = "sr_loop"
    /\ max_try <= 0
    /\ IF last_answer = Unbound
       THEN Raise("UnboundLocalError", 454)
       ELSE Return(last_answer)
    /\ UNCHANGED <<envVars, files, objVars, initVars, caller, requests, request, ln, typed,
                   max_try, last_answer, sr, cc, mainVars, delVars>>

\* ---------------------------------------------------- __main__, lines 562-644
\* the prompt of lines 618-624: fixed instructions, a newline, the work item
cn_input(context) == <<"I", NL>> \o context

\* lines 564-567: install signal_handler for the five signals; response_data = []
main_install ==
    /\ pc = "main_install"
    /\ handlers' = TRUE
    /\ response_data' = <<>>
    /\ it' = 0
    /\ pc' = "main_loop"
    /\ UNCHANGED <<envVars, files, objVars, initVars, srVars, i, checkpoints,
                   api, endVars, delVars>>

\* lines 598-600: the next item of the batch, skipped unless i is 15
main_next_item ==
    /\ pc = "main_loop"
    /\ it < Len(batch_pairs)
    /\ i' = it
    /\ it' = it + 1
    /\ IF i' # OnlyIndex
       THEN UNCHANGED <<pc, srVars>>
       ELSE Call(cn_input(batch_pairs[i' + 1]), "main")
    /\ UNCHANGED <<envVars, files, objVars, initVars, response_data, checkpoints,
                   handlers, api, endVars, delVars>>

\* pickle.dump(response_data, file) to the file whose name carries the index
Checkpoint(index, data) ==
    checkpoints' = Append(checkpoints, [index |-> index, data |-> data])

\* lines 626-635: append the answer, save every tenth index, sleep
main_append ==
    /\ pc = "main_append"
    /\ response_data' = Append(response_data, result.val)
    /\ IF i % SaveEvery = 0
       THEN Checkpoint((i \div SaveEvery) * SaveEvery, response_data')
       ELSE UNCHANGED checkpoints
    /\ pc' = "main_loop"
    /\ UNCHANGED <<envVars, files, objVars, initVars, srVars, it, i, handlers, api,
                   endVars, delVars>>

\* lines 637-639: the final save, named after the last value of i; the
\* script ends
main_final_save ==
    /\ pc = "main_loop"
    /\ it >= Len(batch_pairs)
    /\ IF i = -1
       THEN /\ Unhandled("NameError", 638)
            /\ UNCHANGED checkpoints
       ELSE /\ Checkpoint(i, response_data)
            /\ Shutdown("normal")
            /\ UNCHANGED exc
    /\ UNCHANGED <<envVars, files, objVars, initVars, srVars, it, i, response_data,
                   handlers, api, delVars>>

\* ------------------------------------- is_login, refresh, upload_file
\* The file holds no call of is_login or upload_file: they are public
\* methods for a client of the class, which calls them on a constructed
\* controller between two requests (here: between two items of the loop).
\* The inputs of upload_file: one path as a str, or a list of paths.
UploadInputs ==
    {[is_list |-> FALSE, paths |-> <<"f1">>],
     [is_list |-> TRUE, paths |-> << <<"f1">>, <<"f2">> >>]}

\* a public method returns to the client
Answer(op, val, touched, found, keys) ==
    /\ api' = [op |-> op, kind |-> "return", val |-> val, touched |-> touched,
               found |-> found, keys |-> keys, before |-> objVars]
    /\ pc' = "api_done"
    /\ UNCHANGED endVars

is_login_inverted(found) ==
    LET button == IF found THEN "login-button" ELSE None IN button # None

\* lines 191-198: button stays None when find_element raises
\* NoSuchElementException; return button is None
is_login(found) ==
    LET button == IF found THEN "login-button" ELSE None IN button = None

\* a client calls is_login
is_login_call ==
    /\ pc = "main_loop"
    /\ \E found \in BOOLEAN :
         Answer("is_login", is_login(found),
                <<"login-button">>,
                IF found THEN {"login-button"} ELSE {}, <<>>)
    /\ UNCHANGED <<envVars, files, objVars, initVars, srVars, it, i, response_data,
                   checkpoints, handlers, delVars>>

\* lines 302-307: reload the page, then locate the prompt input (a wait) and
\* the send button (find_element) again; a missing element raises
refresh(prompt_found, button_found) ==
    IF ~prompt_found
    THEN /\ Unhandled("TimeoutException", 304)
         /\ UNCHANGED <<prompt_text_area, send_button>>
    ELSE IF ~button_found
    THEN /\ prompt_text_area' = "prompt-textarea"
         /\ Unhandled("NoSuchElementException", 307)
         /\ UNCHANGED send_button
    ELSE /\ prompt_text_area' = "prompt-textarea"
         /\ send_button' = "send-button"

\* lines 322-325: the keys sent to the file input
UploadKeys(inp) == IF inp.is_list THEN Join(inp.paths, NL) ELSE inp.paths

\* lines 315-332, the try statement: the file input is waited for, the paths
\* are sent to it, the overlay is waited away; any exception gives False
UploadAttempt(inp, input_found, keys_ok, overlay_gone) ==
    IF ~input_found
    THEN [val |-> FALSE, touched |-> <<"file-input">>, found |-> {},
          keys |-> <<>>]
    ELSE IF ~keys_ok
    THEN [val |-> FALSE, touched |-> <<"file-input", "send_keys">>,
          found |-> {"file-input"}, keys |-> UploadKeys(inp)]
    ELSE [val |-> overlay_gone, touched |-> <<"file-input", "send_keys", "overlay">>,
          found |-> {"file-input"}, keys |-> UploadKeys(inp)]

\* lines 309-332: a client calls upload_file(file_paths)
upload_file ==
    /\ pc = "main_loop"
    /\ \E inp \in UploadInputs :
       \E prompt_found, button_found, input_found, keys_ok, overlay_gone \in BOOLEAN :
         IF ~use_4o
         THEN /\ Answer("upload_file", FALSE, <<>>, {}, <<>>)
              /\ UNCHANGED <<prompt_text_area, send_button>>
         ELSE /\ refresh(prompt_found, button_found)
              /\ IF prompt_found /\ button_found
                 THEN LET r == UploadAttempt(inp, input_found, keys_ok,
                                             overlay_gone)
                      IN  Answer("upload_file", r.val,
                                 <<"refresh", "prompt-textarea", "send-button">>
                                     \o r.touched,
                                 {"prompt-textarea", "send-button"} \cup r.found,
                                 r.keys)
                 ELSE api' = [op |-> "upload_file", kind |-> "raise", val |-> FALSE,
                              touched |-> IF prompt_found
                                          THEN <<"refresh", "prompt-textarea",
                                                 "send-button">>
                                          ELSE <<"refresh", "prompt-textarea">>,
                              found |-> IF prompt_found THEN {"prompt-textarea"}
                                        ELSE {},
                              keys |-> <<>>, before |-> objVars]
    /\ UNCHANGED <<envVars, files, is_context_created, use_4o, initVars, srVars,
                   it, i, response_data, checkpoints, handlers, delVars>>

\* the client has the value; the frame of the call is gone
client_call_done ==
    /\ pc = "api_done"
    /\ api' = NoCall
    /\ pc' = "main_loop"
    /\ UNCHANGED <<envVars, files, objVars, initVars, srVars, it, i, response_data,
                   checkpoints, handlers, endVars, delVars>>

\* the positions at which the program runs with the handlers installed
Running ==
    {"main_loop", "main_append", "sr_focus", "sr_type", "sr_wait", "sr_click",
     "sr_loop", "sr_stop", "cc_poll", "sr_answer", "sr_except", "sr_done"}

\* lines 513-547 and 565: signal_handler unbinds its own parameter obj (the
\* global fake_api still refers to the controller) and calls exit(0);
\* SystemExit is no Exception, so it leaves send_request and the driver
signal_handler ==
    /\ handlers
    /\ pc \in Running
    /\ \E sig \in Signals : Shutdown("signal")
    /\ DropFrame
    /\ UNCHANGED <<envVars, files, objVars, initVars, caller, requests, result, mainVars,
                   exc, delVars>>

\* the same handler while the thread is inside the try of lines 421-426: the
\* bare except of line 425 catches SystemExit and the program goes on
signal_in_stop_wait ==
    /\ handlers
    /\ pc = "sr_stop"
    /\ \E sig \in Signals : TRUE
    /\ cc' = NewCheck
    /\ sr' = [sr EXCEPT !.cc_calls = @ + 1]
    /\ pc' = "cc_poll"
    /\ UNCHANGED <<envVars, files, objVars, initVars, caller, requests, request, ln, typed,
                   max_try, last_answer, result, it, i, response_data,
                   checkpoints, handlers, api, endVars, delVars>>

\* the same handler while the thread is inside the try of click_regen: the
\* bare except of line 474 catches SystemExit and the program goes on
signal_in_click_regen ==
    /\ handlers
    /\ pc = "sr_except"
    /\ \E sig \in Signals : TRUE
    /\ click_regen(FALSE, FALSE)
    /\ max_try' = Decrement(max_try)
    /\ cc' = NewCheck
    /\ pc' = "sr_loop"
    /\ UNCHANGED <<envVars, files, objVars, initVars, caller, requests, request, ln, typed,
                   last_answer, result, it, i, response_data, checkpoints,
                   handlers, api, endVars, delVars>>

\* ------------------------------------------------- teardown, lines 167-252
ExitStatus == IF teardown = "exception" THEN 1 ELSE 0

\* interpreter shutdown releases the controller and its __del__ runs
\* (lines 178-179)
finalize_del ==
    /\ pc = "finalize"
    /\ IF is_context_created
       THEN /\ pc' = "delete"
            /\ UNCHANGED exit_status
       ELSE /\ exit_status' = ExitStatus
            /\ pc' = "exited"
    /\ UNCHANGED <<envVars, files, objVars, initVars, srVars, mainVars, exc,
                   teardown, ctx_at_teardown, delVars>>

\* interpreter shutdown ends the process without running __del__: Python
\* does not guarantee __del__ for objects alive when the interpreter exits
finalize_no_del ==
    /\ pc = "finalize"
    /\ exit_status' = ExitStatus
    /\ pc' = "exited"
    /\ UNCHANGED <<envVars, files, objVars, initVars, srVars, mainVars, exc,
                   teardown, ctx_at_teardown, delVars>>

DeleteSteps == <<"menu", "Delete item", "Delete button">>
StepOutcomes == {"clicked", "not found", "click fails"}

DeleteAttemptsAll(outcome, k) ==
    [j \in 1..(Len(DeleteSteps) - k + 1) |->
        [step |-> DeleteSteps[j + k - 1], found |-> outcome[j + k - 1] # "not found",
         clicked |-> outcome[j + k - 1] = "clicked"]]

RECURSIVE DeleteAttempts(_, _)
\* lines 231-246: the steps of the try block from step k on, each a wait and
\* a click; the first failure leaves the block for the except of line 249
DeleteAttempts(outcome, k) ==
    IF k > Len(DeleteSteps) THEN <<>>
    ELSE <<[step |-> DeleteSteps[k], found |-> outcome[k] # "not found",
            clicked |-> outcome[k] = "clicked"]>>
         \o (IF outcome[k] = "clicked" THEN DeleteAttempts(outcome, k + 1) ELSE <<>>)

KeepFlag(attempts) == UNCHANGED is_context_created

ClearFlagOnSuccess(attempts) ==
    is_context_created' =
        (is_context_created /\ ~attempts[Len(attempts)].clicked)

\* line 252: self.is_context_created = False
ClearFlag(attempts) == is_context_created' = FALSE

\* lines 229-252: delete_context, called by __del__; the process exits after it
delete_context ==
    /\ pc = "delete"
    /\ \E outcome \in [1..Len(DeleteSteps) -> StepOutcomes] :
         /\ del_log' = del_log \o DeleteAttempts(outcome, 1)
         /\ ClearFlag(DeleteAttempts(outcome, 1))
    /\ del_calls' = del_calls + 1
    /\ exit_status' = ExitStatus
    /\ pc' = "exited"
    /\ UNCHANGED <<envVars, files, use_4o, prompt_text_area, send_button, initVars,
                   srVars, mainVars, exc, teardown, ctx_at_teardown>>

\* ----------------------------------------------------------- specification
Next ==
    \/ init_cookies_file
    \/ init_load_cookies
    \/ init_inject_cookie
    \/ init_inject_done
    \/ init_manual_login
    \/ init_select_model
    \/ init_controls
    \/ init_context
    \/ init_flag
    \/ send_request_focus
    \/ send_request_type_line
    \/ send_request_typed
    \/ send_request_wait_clickable
    \/ send_request_submit
    \/ send_request_attempt
    \/ send_request_stop_button
    \/ check_conditions_poll
    \/ check_conditions_exhausted
    \/ send_request_read_answer
    \/ send_request_except
    \/ send_request_exhausted
    \/ send_request_done
    \/ main_install
    \/ main_next_item
    \/ main_append
    \/ main_final_save
    \/ is_login_call
    \/ upload_file
    \/ client_call_done
    \/ signal_handler
    \/ signal_in_stop_wait
    \/ signal_in_click_regen
    \/ finalize_del
    \/ finalize_no_del
    \/ delete_context

Spec == Init /\ [][Next]_vars

\* ------------------------------------------------------------------ claims
\* a send_request call has ended, by a return or by an exception
CallEnded == result.kind # "none"

\* the positions inside the retry loop of send_request (lines 418-453)
InLoop == pc \in {"sr_loop", "sr_stop", "cc_poll", "sr_answer", "sr_except", "sr_done"}

\* check_conditions has ended, by a return or by an exception
CheckEnded == cc.result # "none"

\* C1: when all 3 attempts of the retry loop raised, send_request does not
\* raise but returns a string, the last observed response text.
C1_ExhaustedBudgetReturnsText ==
    (CallEnded /\ sr.n_exc = MaxTry)
        => (result.kind = "return" /\ result.val \in Answers)

\* C2: every send_request call on an initialized controller returns a string,
\* whatever the page does; no exception reaches the caller.
C2_SendRequestAlwaysReturns ==
    (caller = "main" /\ CallEnded)
        => (result.kind = "return" /\ result.val \in Answers)

\* C3: in one send_request call click_regen is attempted exactly once per
\* attempt that raised, and the budget drops by one per such attempt (so three
\* exceptions give three click_regen attempts); it is never attempted after a
\* successful attempt, and a failing click_regen does not end the loop.
C3_RegenOncePerFailedAttempt ==
    /\ InLoop =>
         /\ sr.n_regen = (IF pc = "sr_except" THEN sr.n_exc - 1 ELSE sr.n_exc)
         /\ max_try = MaxTry - sr.n_regen
         /\ sr.regen_failed => sr.n_regen >= 1
    /\ (CallEnded /\ result.kind = "return") => sr.n_regen = sr.n_exc
    /\ exc.line = 454 => (sr.n_exc = MaxTry /\ sr.n_regen = MaxTry /\ max_try = 0)

\* C3 witness: three attempts raised, click_regen ran three times and failed
\* at least once, and the loop went on to its end.
C3_Witness ==
    /\ pc = "sr_loop"
    /\ sr.n_exc = MaxTry
    /\ sr.n_regen = MaxTry
    /\ sr.regen_failed
    /\ max_try = 0

\* every poll of the ended check_conditions call saw 'Continue generating'
ContinueOnEveryPoll == CheckEnded /\ cc.clicks = cc.polls

\* no poll of the ended check_conditions call found the send button
ButtonNeverFound == CheckEnded /\ cc.clicks = 0 /\ cc.result # "element"

C5_DeleteBeforeExit ==
    (pc = "exited" /\ ctx_at_teardown) => del_calls >= 1

\* C6: delete_context never raises, whichever of its three steps fails, and
\* the context flag is False when it returns.
C6_DeleteSwallowsAndClears ==
    del_calls >= 1 =>
        /\ ~is_context_created
        /\ pc = "exited"
        /\ exit_status = ExitStatus
        /\ exc.line \notin {231, 234, 237, 240, 243, 246}

\* C6 witness: delete_context ran and its second step failed.
C6_Witness ==
    /\ del_calls = 1
    /\ Len(del_log) = 2
    /\ ~del_log[2].clicked

\* initialization failed because a prompt control was missing
ControlsMissing == exc.line \in {158, 161}

\* C7: when the prompt input or the send button is missing, initialization
\* raises: no request is sent, the controller never gets Ready, and the
\* context flag stays False, so teardown attempts no delete_context.
C7_MissingControlsFailInit ==
    ControlsMissing =>
        /\ requests = <<>>
        /\ ~handlers
        /\ pc \in {"finalize", "exited"}
        /\ teardown = "exception"
        /\ ~is_context_created
        /\ del_calls = 0

\* C7 witness: the send button was missing and the process has exited.
C7_Witness == exc.line = 161 /\ pc = "exited"

\* the cookies of the cookie file initialization reads
FileCookies == IF store0.exists THEN store0.cookies ELSE <<>>

\* the injection loop of lines 144-147 is over
PastInjection ==
    pc \notin {"init_cookies", "init_load", "init_inject"} /\ exc.line # 134

CookieFileAbsent == ~store0.exists /\ config.cookies_path # ""

\* C9: with no file at the configured cookies path, initialization creates a
\* file there holding [], injects no cookie and goes on.
C9_AbsentCookieFileCreated ==
    CookieFileAbsent =>
        /\ injected = <<>>
        /\ exc.line # 134
        /\ pc # "init_cookies" => files[config.cookies_path] # NoFile
        /\ pc \in {"init_load", "init_inject", "init_manual"}
             => files[config.cookies_path] = <<"[", "]">>

\* C9 witness: the file was absent and initialization reached the prompt
\* controls with the created file in place.
C9_Witness ==
    /\ CookieFileAbsent
    /\ pc = "init_controls"
    /\ config.cookies_path = "cookies.json"
    /\ files["cookies.json"] = <<"[", "]">>

\* C10: with cookies_path left at its default "", initialization injects no
\* cookie, writes no cookie file and goes on to the prompt controls.
C10_DefaultCookiesPathProceeds ==
    config.cookies_path = "" =>
        /\ injected = <<>>
        /\ exc.type # "FileNotFoundError"
        /\ pc \in {"init_cookies", "init_load", "init_inject", "init_manual"}
             => \A p \in Paths : files[p] = NoFile

\* the manual login of lines 149-151 has run
PastManualLogin ==
    /\ config.manual_login
    /\ pc \notin {"init_cookies", "init_load", "init_inject", "init_manual"}
    /\ exc.line # 134

\* the cookie store: the file the next start with the same configuration
\* reads at lines 140-141
CookieStore == files[config.cookies_path]

\* C11: once manual login has run, the cookie store holds exactly the cookies
\* it captured, so that the next start with the same configuration loads and
\* injects them.
C11_ManualLoginFeedsCookieStore ==
    PastManualLogin =>
        /\ CookieStore # NoFile
        /\ JsonLoads(CookieStore) \in LoginJars

\* check_chatgpt4o has run to its end
ModelChecked == r4o.kind # "none"

\* C12: check_chatgpt4o never raises; it returns True with no click (indicator
\* present) or with the switcher and the GPT-4o option clicked, and False
\* when a step was not found.
C12_ModelCheckNeverRaises ==
    ModelChecked =>
        /\ r4o.kind = "return"
        /\ r4o.val => r4o.clicks \in {<<>>, <<"switcher", "GPT-4o">>}
        /\ ~r4o.val => r4o.clicks \in {<<>>, <<"switcher">>}

\* check_chatgpt4o was called and found neither the 4o indicator nor the
\* model switcher
NoModelControls ==
    /\ config.use_chatgpt4o
    /\ r4o.kind = "return"
    /\ ~r4o.val
    /\ r4o.clicks = <<>>

\* an upload_file call has ended and its frame is still there
UploadEnded == api.op = "upload_file"

\* C13: when neither the indicator nor the switcher was found, use_4o is
\* False from then on, and every upload_file call returns False at once: no
\* refresh, no element looked up, no key sent, no handle reassigned.
C13_NoModelControlsNoUpload ==
    NoModelControls =>
        /\ ~use_4o
        /\ UploadEnded =>
             /\ api.kind = "return"
             /\ api.val = FALSE
             /\ api.touched = <<>>
             /\ api.keys = <<>>
             /\ api.before = objVars

\* C13 witness: upload_file has returned on a controller whose model check
\* found neither control.
C13_Witness ==
    /\ NoModelControls
    /\ UploadEnded
    /\ pc = "api_done"

\* C14: with use_4o set, upload_file always returns (it never raises), and it
\* returns True only when the refresh, the file-input lookup, the path entry
\* and the overlay wait were all carried out.
C14_UploadNeverRaises ==
    UploadEnded /\ api.before[2] =>
        /\ api.kind = "return"
        /\ api.val =>
             /\ api.touched = <<"refresh", "prompt-textarea", "send-button",
                                "file-input", "send_keys", "overlay">>
             /\ api.found = {"prompt-textarea", "send-button", "file-input"}

\* the send_request calls made by the constructor
InitRequests == SelectSeq(requests, LAMBDA r : r.by = "init")

\* the constructor has returned: the controller is Ready
Ready == pc = "main_install" \/ handlers

\* C15: initialization sends no request when context_content is empty and
\* at most one otherwise, exactly one by the time the controller is Ready;
\* its text is context_content with every "@" replaced by a newline.
C15_ContextSentOnce ==
    LET content == config.context_content
    IN  /\ Len(InitRequests) <= (IF content = <<>> THEN 0 ELSE 1)
        /\ Ready /\ content # <<>> => Len(InitRequests) = 1
        /\ \A k \in 1..Len(InitRequests) :
             LET text == InitRequests[k].text
             IN  /\ Len(text) = Len(content)
                 /\ \A j \in 1..Len(text) :
                      text[j] = IF content[j] = "@" THEN NL ELSE content[j]

\* C15 witness: a Ready controller whose context_content holds an "@" and
\* whose constructor sent its one request.
C15_Witness ==
    /\ Ready
    /\ \E j \in 1..Len(config.context_content) : config.context_content[j] = "@"
    /\ Len(InitRequests) = 1

\* the texts typed by the running call, one per line typed
TypedTexts == [j \in 1..((Len(typed) + 1) \div 2) |-> typed[2 * j - 1].text]

\* a is a prefix of b
IsPrefix(a, b) == Len(a) <= Len(b) /\ SubSeq(b, 1, Len(a)) = a

\* C16: the keys sent to the prompt are the lines of the request in order
\* (texts without a newline whose join by newlines is the request), each
\* followed by SHIFT+RETURN and none by a plain RETURN; the send button is
\* clicked only after all lines were typed and the button was seen clickable,
\* and at most once per call.
C16_TypedThenSubmittedOnce ==
    /\ \A k \in 1..Len(typed) :
         /\ typed[k].keys # "RETURN"
         /\ IF k % 2 = 1
            THEN /\ typed[k].keys = "text"
                 /\ \A c \in 1..Len(typed[k].text) : typed[k].text[c] # NL
            ELSE typed[k] = [keys |-> "SHIFT+RETURN", text |-> <<>>]
    /\ IsPrefix(Join(TypedTexts, NL), request)
    /\ sr.submits <= 1
    /\ sr.submits = 1 =>
         /\ sr.clickable
         /\ Len(typed) % 2 = 0
         /\ Join(TypedTexts, NL) = request

\* C16 witness: a call that typed two lines, submitted, went through a
\* failed attempt and then returned.
C16_Witness ==
    /\ pc = "sr_done"
    /\ Len(typed) = 4
    /\ sr.submits = 1
    /\ sr.n_exc >= 1

\* the send_request calls made by the batch driver
MainRequests == SelectSeq(requests, LAMBDA r : r.by = "main")

\* the for loop of line 598 has ended and the final save was reached
LoopEnded == teardown = "normal" \/ exc.line = 638

\* C17: when the loop has ended, the driver has called send_request once per
\* item of the batch, in batch order, and response_data holds one response
\* per item.
C17_EveryItemRequested ==
    LoopEnded =>
        /\ Len(MainRequests) = Len(batch_pairs)
        /\ \A k \in 1..Len(MainRequests) :
             MainRequests[k].text = cn_input(batch_pairs[k])
        /\ Len(response_data) = Len(batch_pairs)

\* the indices at which line 630 asks for a periodic checkpoint
SaveIndices == {k \in 0..(Len(batch_pairs) - 1) : k % SaveEvery = 0}

\* C18: when the loop has ended, one checkpoint was written at every tenth
\* item and exactly one more after the loop; the last checkpoint holds the
\* whole response list, one response per item processed.
C18_CheckpointsWritten ==
    LoopEnded =>
        /\ Len(checkpoints) = Cardinality(SaveIndices) + 1
        /\ checkpoints[Len(checkpoints)].data = response_data
        /\ Len(response_data) = Len(MainRequests)
        /\ exc.line # 638

\* an is_login call has ended and its frame is still there
LoginChecked == api.op = "is_login"

\* C19: is_login returns (it does not raise), True exactly when no
\* login-button element was located and False exactly when one was, and it
\* leaves the context flag, the advanced-model flag and the element handles
\* as they were.
C19_IsLoginReportsButton ==
    LoginChecked =>
        /\ api.kind = "return"
        /\ api.val = TRUE <=> "login-button" \notin api.found
        /\ api.val = FALSE <=> "login-button" \in api.found
        /\ api.before = objVars

\* C19 witness: is_login has returned True, no login button being there.
C19_Witness ==
    /\ LoginChecked
    /\ api.found = {}
    /\ api.val = TRUE

\* C20: a send_request call that returns a text does so in an attempt whose
\* check_conditions call found the send button with the Continue button
\* absent, and the text is that of the last assistant message read.
C20_ReturnsOnlyWhenStabilised ==
    pc = "sr_done" /\ result.kind = "return" =>
        /\ cc.result = "element"
        /\ last_answer # Unbound
        /\ result.val = last_answer

\* C21: the steps delete_context attempts are, in order, the conversation
\* menu, the Delete menu item and the Delete button of the dialog; a step is
\* attempted only when every earlier step was found and clicked, so nothing
\* follows a failed step and the Delete button is clicked only after the two
\* earlier clicks.
C21_DeleteStepsInOrder ==
    /\ Len(del_log) <= 3
    /\ \A k \in 1..Len(del_log) :
         /\ del_log[k].step = <<"menu", "Delete item", "Delete button">>[k]
         /\ del_log[k].clicked => del_log[k].found
         /\ \A j \in 1..(k - 1) : del_log[j].found /\ del_log[j].clicked
    /\ pc = "exited" /\ del_calls = 1 => Len(del_log) >= 1

\* C21 witness: the menu was opened, the Delete menu item was not found, and
\* delete_context ended there.
C21_Witness ==
    /\ pc = "exited"
    /\ Len(del_log) = 2
    /\ del_log[1].clicked
    /\ ~del_log[2].found

\* the positions inside a send_request call
InCall ==
    pc \in {"sr_focus", "sr_type", "sr_wait", "sr_click", "sr_loop", "sr_stop",
            "cc_poll", "sr_answer", "sr_except", "sr_done"}

\* a number that bounds the steps the running send_request call has left: the
\* budget of the retry loop first, the position inside the attempt second
StepsLeft ==
    CASE pc = "sr_focus" -> 100
      [] pc = "sr_type" -> 98 - ln
      [] pc = "sr_wait" -> 90
      [] pc = "sr_click" -> 89
      [] pc = "sr_loop" -> 20 * max_try + 12
      [] pc = "sr_stop" -> 20 * max_try + 11
      [] pc = "cc_poll" -> 20 * max_try + 10 - cc.attempt
      [] pc = "sr_answer" -> 20 * max_try + 5
      [] pc = "sr_except" -> 20 * max_try + 4
      [] pc = "sr_done" -> 1
      [] OTHER -> 0

\* the counters of the running call stay within the budget: 3 attempts, 3
\* check_conditions calls of at most 4 Continue clicks each, 3 click_regen
SendRequestBounds ==
    /\ max_try \in 0..3
    /\ sr.n_exc <= 3
    /\ sr.cc_calls <= 3
    /\ sr.cc_calls <= sr.n_exc + 1
    /\ sr.n_regen <= 3
    /\ cc.attempt <= 4
    /\ cc.polls <= 4
    /\ cc.clicks <= 4
    /\ sr.cc_calls >= 1 => 4 * (sr.cc_calls - 1) + cc.clicks <= 12
    /\ InCall => StepsLeft > 0

\* C22: every send_request call ends after at most 3 attempts, 3
\* check_conditions calls, 12 Continue clicks (3 calls of at most 4) and 3
\* click_regen attempts: the counters stay within these bounds, and every step
\* of a call lowers StepsLeft, so that the loop is re-entered only with a
\* smaller budget.
C22_SendRequestTerminates ==
    /\ []SendRequestBounds
    /\ [][InCall => StepsLeft' < StepsLeft]_vars

\* C22 witness: the third attempt of a call has failed after a
\* check_conditions call that clicked Continue four times.
C22_Witness ==
    /\ pc = "sr_except"
    /\ sr.n_exc = 3
    /\ sr.cc_calls = 3
    /\ cc.clicks = 4

\* the positions of send_request before a return statement has run
BeforeReturn ==
    pc \in {"sr_focus", "sr_type", "sr_wait", "sr_click", "sr_loop", "sr_stop",
            "cc_poll", "sr_answer", "sr_except"}

\* C23: while a send_request call has not returned, no assistant message read
\* earlier is held (last_answer is unbound at every position of the loop, and
\* at line 454 after it); a returned text is the one read in the attempt that
\* returns, the attempt after the sr.n_exc failed ones.
C23_TextReadInReturningAttempt ==
    /\ BeforeReturn => last_answer = Unbound
    /\ exc.line = 454 => last_answer = Unbound
    /\ pc = "sr_done" =>
         /\ result.kind = "return"
         /\ last_answer \in {"a1", "a2"}
         /\ result.val = last_answer
         /\ sr.cc_calls = sr.n_exc + 1
         /\ max_try = 3 - sr.n_exc

\* C23 witness: two attempts failed and the third read the messages and
\* returned.
C23_Witness ==
    /\ pc = "sr_done"
    /\ result.kind = "return"
    /\ sr.n_exc = 2
    /\ result.val = last_answer

====
